---- MODULE Spec2Model ----
(***************************************************************************)
(* A model of src/main3d.js: the start-up script of the dune scene, its    *)
(* three event listeners, its loader timer and its per-frame callback.     *)
(*                                                                         *)
(* Number representation.  JavaScript numbers are modelled in fixed point: *)
(*   - lengths, heights, angles of rotation and the time t : 1/10000       *)
(*     (a height of -8 is -80000, t = 1.0 is 10000);                       *)
(*   - dimensionless fractions (Math.random(), Math.sin(), noise3D(),      *)
(*     dayT, pointer.x/y, wobble, light intensity) : 1/1000;               *)
(*   - drift : 1/1000000;  camera position : 1/1000;                       *)
(*   - colour channels : 0..255, as in the hex literals of the source.     *)
(* Divisions round down (\div).                                            *)
(***************************************************************************)
EXTENDS Integers, Sequences, FiniteSets

VARIABLES
    env,        \* what the page offers: user agent, pointer kind, DOM, globals
    inner,      \* <<innerWidth, innerHeight>> of the window
    status,     \* how far the script got
    listeners,  \* event types with a registered listener
    rafPending, \* animation-frame callbacks requested and not yet run
    timer,      \* the 900 ms loader timeout: "none", "pending" or "fired"
    loaderHidden, \* 'hidden' is in the class list of #page-loader
    elapsed,    \* milliseconds since the script ran
    rnd,        \* the state of Math.random
    pointer,    \* pointer.x, pointer.y
    dayT,       \* the day parameter
    scene,      \* everything the scene set-up builds, and t
    wrapped     \* history: the orbs and dust particles wrapped upward so far

vars == <<env, inner, status, listeners, rafPending, timer, loaderHidden,
          elapsed, rnd, pointer, dayT, scene, wrapped>>

----------------------------------------------------------------------------
\* Bounds of the model

\* frames after which the model stops delivering frame callbacks
MaxFrames == 1300
\* the same, where the progress of the frame loop is checked
LiveFrames == 8
\* frames during which pointer, scroll and resize events are delivered
EnvFrames == 2
\* terrain vertices followed, out of the (segX+1)*(segY+1) of the plane
vCount == 2
\* dust particles followed, out of the 420 of the buffer
dustCount == 5

\* milliseconds between two display refreshes, as clock.getDelta() reports them
Deltas == {16}

----------------------------------------------------------------------------
\* Arithmetic

Min(a, b) == IF a < b THEN a ELSE b
Max(a, b) == IF a > b THEN a ELSE b
Abs(a) == IF a < 0 THEN 0 - a ELSE a

\* sin on [0, pi), in 1/1000, argument in 1/1000 rad (Bhaskara's formula)
HalfSin(a) ==
    LET p == a * (3142 - a)
    IN  (16 * p) \div ((5 * 3142 * 3142 - 4 * p) \div 1000)

\* Math.sin, in 1/1000, argument in 1/1000 rad
Sin(a) ==
    LET m == a % 6283
    IN  IF m < 3142 THEN HalfSin(m) ELSE 0 - HalfSin(m - 3142)

----------------------------------------------------------------------------
\* Math.random: a tape of values in [0, 1), in 1/1000, read cyclically.
\* The tapes hold low, middle and high values; on both some orb is spawned at
\* its lowest with the fastest drift, so that it reaches the floor soonest.

Tapes ==
    << <<999, 500, 0, 250, 100>>,
       <<100, 999, 500, 0, 250>> >>

TapeLen == Len(Tapes[1])

Rand(r) == Tapes[r.tape][r.pos + 1]
Draw(r) == [r EXCEPT !.pos = (r.pos + 1) % TapeLen]
\* the k-th value ahead of r, and r after k draws
RandAt(r, k) == Tapes[r.tape][((r.pos + k) % TapeLen) + 1]
Skip(r, k) == [r EXCEPT !.pos = (r.pos + k) % TapeLen]

----------------------------------------------------------------------------
\* The page

\* the window when the script runs, and the sizes it may be given later
InitialViewport == <<800, 600>>
Viewports == { <<800, 600>>, <<1200, 600>> }

Envs ==
    [ uaMobile : BOOLEAN, coarse : BOOLEAN, hasContainer : BOOLEAN,
      hasTHREE : BOOLEAN, hasSimplex : BOOLEAN, hasLoader : BOOLEAN ]

\* line 6-7: the user agent names a mobile device, or the pointer is coarse
isMobile(e) == e.uaMobile \/ e.coarse

\* the guard of line 18 left out
ContainerNeverMissing(e) == FALSE

\* line 18: document.getElementById('three-container') found nothing
ContainerMissing(e) == ~e.hasContainer

\* line 20: THREE is not a global, so evaluating THREE.Scene throws
ThreeMissing(e) == ~e.hasTHREE

----------------------------------------------------------------------------
\* Colours

Color(r, g, b) == [r |-> r, g |-> g, b |-> b]

\* THREE.Color.lerp, alpha in 1/1000
Lerp(c, d, alpha) ==
    [ r |-> c.r + ((d.r - c.r) * alpha) \div 1000,
      g |-> c.g + ((d.g - c.g) * alpha) \div 1000,
      b |-> c.b + ((d.b - c.b) * alpha) \div 1000 ]

----------------------------------------------------------------------------
\* Scene set-up (lines 20-173)

totalOrbs == 12
planeSize == 900
segX == 260
segY == 140

\* the index in the plane's position attribute of the k-th vertex followed
VertStride == 9205
VertIndex(k) == (k - 1) * VertStride

\* PlaneGeometry(planeSize, planeSize, segX, segY) after rotateX(-PI/2):
\* vertex i lies at column i % (segX+1), row i \div (segX+1), at height 0
PlaneVertex(i) ==
    LET ix == i % (segX + 1)
        iy == i \div (segX + 1)
    IN  [ x |-> ((ix * planeSize * 1000) \div segX) * 10 - planeSize * 5000,
          y |-> 0,
          z |-> ((iy * planeSize * 1000) \div segY) * 10 - planeSize * 5000 ]

\* createOrb with the spawn loop's arguments: the seven values Math.random
\* returns for one orb, in the order the code asks for them
createOrb(id, rx, rz, ry, rMetal, rRadius, rDrift, rWobble) ==
    [ id     |-> id,
      radius |-> 16000 + rRadius * 32,
      metal  |-> rMetal > 350,
      drift  |-> 10000 + rDrift * 28,
      wobble |-> (rWobble * 8) \div 10 + 600,
      baseX  |-> (rx - 500) * 3200,
      baseZ  |-> 0 - 200000 - rz * 4200,
      x      |-> (rx - 500) * 3200,
      y      |-> 80000 + ry * 360,
      z      |-> 0 - 200000 - rz * 4200,
      rotX   |-> 0,
      rotY   |-> 0 ]

SpawnOrbs(r) ==
    [ i \in 1..totalOrbs |->
        LET k == 7 * (i - 1)
        IN  createOrb(i, RandAt(r, k), RandAt(r, k + 1), RandAt(r, k + 2),
                      RandAt(r, k + 3), RandAt(r, k + 4), RandAt(r, k + 5),
                      RandAt(r, k + 6)) ]

SpawnDust(r) ==
    [ i \in 1..dustCount |->
        LET k == 3 * (i - 1)
        IN  [ x |-> (RandAt(r, k) - 500) * 9000,
              y |-> RandAt(r, k + 1) * 600 + 20000,
              z |-> 0 - RandAt(r, k + 2) * 6000 ] ]

NoScene ==
    [ built |-> FALSE, mounted |-> FALSE,
      camera |-> [x |-> 0, y |-> 0, z |-> 0, aspect |-> <<1, 1>>],
      size |-> <<0, 0>>,
      sun |-> [color |-> Color(0, 0, 0), intensity |-> 0],
      background |-> Color(0, 0, 0),
      duneColor |-> Color(0, 0, 0),
      noise |-> [on |-> FALSE, seed |-> 0],
      verts |-> << >>, baseY |-> << >>, orbs |-> << >>, dust |-> << >>,
      t |-> 0, frames |-> 0, renders |-> 0 ]

\* lines 20-173: the scene as the set-up leaves it, and Math.random after
\* it.  new SimplexNoise(Math.random) is library code: the model lets it take
\* one value, which seeds the stand-in Noise3D below.
BuildScene(e, vp, r) ==
    LET r1 == IF e.hasSimplex THEN Draw(r) ELSE r
        r2 == Skip(r1, 7 * totalOrbs)
    IN  [ scene |->
            [ built |-> TRUE, mounted |-> TRUE,
              camera |-> [x |-> 0, y |-> 16000, z |-> 48000, aspect |-> vp],
              size |-> vp,
              sun |-> [color |-> Color(255, 231, 198), intensity |-> 1000],
              background |-> Color(0, 0, 0),
              duneColor |-> Color(219, 205, 191),
              noise |-> [on |-> e.hasSimplex,
                         seed |-> IF e.hasSimplex THEN Rand(r) ELSE 0],
              verts |-> [k \in 1..vCount |-> PlaneVertex(VertIndex(k))],
              baseY |-> [k \in 1..vCount |-> PlaneVertex(VertIndex(k)).y],
              orbs |-> SpawnOrbs(r1),
              dust |-> SpawnDust(r2),
              t |-> 0, frames |-> 0, renders |-> 0 ],
          rnd |-> Skip(r2, 3 * dustCount) ]

----------------------------------------------------------------------------
\* The frame callback animate (lines 196-268)

\* stand-in for simplex.noise3D of the library: some function of its three
\* arguments (1/1000) and of the seed, with values in [-1, 1] (1/1000);
\* the fallback object of line 52 returns 0
Noise3D(n, a, b, c) ==
    IF n.on THEN ((a * 31 + b * 17 + c * 7 + n.seed * 13) % 2001) - 1000 ELSE 0

\* lines 203-208: the displacement of a vertex at time tt
Height(n, v, tt) ==
    LET n1 == Noise3D(n, (v.x * 4) \div 10000 + (tt * 8) \div 1000,
                         (v.z * 4) \div 10000 + (tt * 6) \div 1000,
                         (tt * 2) \div 1000)
        n2 == (Noise3D(n, (v.x * 2) \div 1000 + (tt * 3) \div 1000,
                          (v.z * 2) \div 1000 + (tt * 2) \div 1000,
                          tt \div 1000) * 8) \div 10
    IN  n1 * 36 + n2 * 16

\* the displacement added to the height of the frame before
SetYOnCurrent(base, cur, h) == cur + h

\* line 209: posAttr.setY(i, baseY[i] + height)
SetY(base, cur, h) == base + h

\* lines 202-210
Dunes(sc, tt) ==
    [ k \in 1..Len(sc.verts) |->
        [ sc.verts[k] EXCEPT
            !.y = SetY(sc.baseY[k], sc.verts[k].y, Height(sc.noise, sc.verts[k], tt)) ] ]

\* line 223: the height under which an orb is wrapped upward
OrbFloor == -80000
\* line 236: the height under which a dust particle is wrapped upward
DustFloor == 5000

\* line 221: what an orb sinks by in one frame
OrbFall(o) == (o.drift * 4) \div 1000
\* line 223, after line 221
OrbSinks(o) == o.y - OrbFall(o) < OrbFloor

\* the range of line 148 used again on wrapping
OrbWrapYAsSpawned(r) == 80000 + r * 360

\* line 224
OrbWrapY(r) == 180000 + r * 360

\* a wrapped orb made anew, as createOrb makes one
WrapOrbAnew(o, ry, rx) ==
    createOrb(o.id, rx, 500, ry, 500, ry, ry, rx)

\* lines 224-226: the orb wrapped upward, with the two values of Math.random
WrapOrb(o, ry, rx) ==
    [ o EXCEPT !.y = OrbWrapY(ry),
               !.baseX = (rx - 500) * 3200,
               !.x = (rx - 500) * 3200 ]

\* lines 216-229 for the orb at position i of orbGroup.children (idx = i - 1)
OrbStep(o, i, tt, ry, rx) ==
    LET idx == i - 1
        moved ==
          [ o EXCEPT
              !.x = o.baseX
                    + (Sin((tt * o.wobble) \div 10000 + idx * 1000)
                       * (5000 + (idx % 3) * 4000)) \div 1000,
              !.z = o.z + (Sin((tt * 12) \div 1000 + idx * 1000) * 200) \div 1000,
              !.y = o.y - OrbFall(o) ]
        placed == IF moved.y < OrbFloor THEN WrapOrb(moved, ry, rx) ELSE moved
    IN  [ placed EXCEPT !.rotY = placed.rotY + 20 + (idx % 4) * 12,
                        !.rotX = placed.rotX + 18 ]

\* the orbs line 223 finds under the floor in this run
OrbsWrapped(os) == { j \in 1..Len(os) : OrbSinks(os[j]) }

\* lines 215-230: forEach in order; each wrapped orb takes two values of
\* Math.random, so orb i reads behind the orbs of wo wrapped before it
Orbs(os, tt, r, wo) ==
    [ i \in 1..Len(os) |->
        LET before == Cardinality({ j \in wo : j < i })
        IN  OrbStep(os[i], i, tt, RandAt(r, 2 * before), RandAt(r, 2 * before + 1)) ]

\* line 235 for particle i of the buffer (0-based)
DustMoved(d, i, tt) == d.y + (Sin(tt \div 50 + i * 1000) * 8) \div 1000 - 6

\* line 236
DustWrapY(r) == 620000 + r * 80

\* the particles line 236 finds under the floor in this run
DustWrapped(ds, tt) == { j \in 1..Len(ds) : DustMoved(ds[j], j - 1, tt) < DustFloor }

\* lines 233-237, wd being the particles wrapped in this run
Dust(ds, tt, r, wd) ==
    [ k \in 1..Len(ds) |->
        [ ds[k] EXCEPT
            !.y = IF k \in wd
                  THEN DustWrapY(RandAt(r, Cardinality({ j \in wd : j < k })))
                  ELSE DustMoved(ds[k], k - 1, tt) ] ]

\* lines 241-245: the camera eases towards the pointer
Parallax(cam, ptr) ==
    [ cam EXCEPT !.x = cam.x + ((ptr.x * 4 - cam.x) * 3) \div 100,
                 !.y = cam.y + ((14000 - ptr.y * 6 - cam.y) * 3) \div 100 ]

\* lines 248-255
SunLight(day) ==
    [ color |-> IF day < 500
                THEN Lerp(Color(255, 216, 184), Color(255, 251, 255), day * 2)
                ELSE Lerp(Color(255, 251, 255), Color(255, 178, 140), (day - 500) * 2),
      intensity |-> 800 + (1000 - Abs(500 - day)) ]

\* lines 258-262
Background(day) ==
    Lerp(Lerp(Color(250, 246, 240), Color(238, 247, 255), Min(1000, (day * 12) \div 10)),
         Color(6, 16, 34), Max(0, day - 700))

\* line 265
DuneTint(c, day) ==
    Lerp(c, Lerp(Color(219, 205, 191), Color(233, 214, 192), (day * 6) \div 10), 40)

\* animate not asking for another frame
RequestNothing(n) == n

\* line 197: requestAnimationFrame(animate), n callbacks being requested already
RequestFrame(n) == n + 1

\* lines 201-267 at time tt: wo and wd are the orbs and the particles this
\* run wraps upward
Render(sc, r, ptr, day, tt, wo, wd) ==
    [ scene |->
        [ sc EXCEPT
            !.t = tt,
            !.verts = Dunes(sc, tt),
            !.orbs = Orbs(sc.orbs, tt, r, wo),
            !.dust = Dust(sc.dust, tt, Skip(r, 2 * Cardinality(wo)), wd),
            !.camera = Parallax(sc.camera, ptr),
            !.sun = SunLight(day),
            !.background = Background(day),
            !.duneColor = DuneTint(sc.duneColor, day),
            !.frames = sc.frames + 1,
            !.renders = sc.renders + 1 ],
      rnd |-> Skip(r, 2 * Cardinality(wo) + Cardinality(wd)),
      wrapped |-> [orbs |-> wo, dust |-> wd] ]

\* lines 198-267: one run of animate, delta in milliseconds; the scene
\* after it, Math.random after it, and what the run wrapped upward
animate(sc, r, ptr, day, delta) ==
    Render(sc, r, ptr, day, sc.t + delta * 6,
           OrbsWrapped(sc.orbs), DustWrapped(sc.dust, sc.t + delta * 6))

----------------------------------------------------------------------------
\* The listeners (lines 174-191)

\* lines 175-176: the pointer of a mousemove at (cx, cy) in a window vp
PointerAt(cx, cy, vp) ==
    [ x |-> (cx * 2000) \div vp[1] - 1000,
      y |-> (cy * 2000) \div vp[2] - 1000 ]

\* the clamp without its upper end
ClampBelowOnly(sc) == Max(0, sc)

\* line 190: Math.min(1, Math.max(0, sc))
Clamp01(sc) == Min(1000, Max(0, sc))

\* lines 188-190: dayT after a scroll event
DayOfScroll(scrollY, scrollHeight, vp) ==
    LET docH == scrollHeight - vp[2]
        sc == IF docH > 0 THEN (scrollY * 1000) \div docH ELSE 0
    IN  Clamp01(sc)

\* the camera put back where the set-up put it
ResizeCameraAnew(cam, vp) == [x |-> 0, y |-> 16000, z |-> 48000, aspect |-> vp]

\* lines 181-182: camera.aspect = innerWidth / innerHeight
ResizeCamera(cam, vp) == [cam EXCEPT !.aspect = vp]

\* the two arguments of setSize exchanged
SetSizeSwapped(w, h) == <<h, w>>

\* line 183: renderer.setSize(innerWidth, innerHeight)
SetSize(w, h) == <<w, h>>

----------------------------------------------------------------------------
\* What the page and the user may do

ClientPoints == { <<0, 0>>, <<600, 300>> }
ScrollYs == { -50, 700, 3000 }
ScrollHeights == { 400, 2000 }

\* line 273: the delay of the loader timeout, in milliseconds
LoaderDelay == 900

Init ==
    /\ env \in Envs
    /\ inner = InitialViewport
    /\ rnd \in [tape : 1..Len(Tapes), pos : {0}]
    /\ status = "loading"
    /\ listeners = {}
    /\ rafPending = 0
    /\ timer = "none"
    /\ loaderHidden = FALSE
    /\ elapsed = 0
    /\ pointer = [x |-> 0, y |-> 0]
    /\ dayT = 50
    /\ scene = NoScene
    /\ wrapped = [orbs |-> {}, dust |-> {}]

\* lines 4-274: the script runs.  Line 270 calls animate at once; the clock
\* has only just been made, so this first run sees a delta of 0.
Startup ==
    /\ status = "loading"
    /\ UNCHANGED <<env, inner, elapsed, pointer, dayT>>
    /\ IF isMobile(env)
       THEN /\ status' = "skippedMobile"
            /\ loaderHidden' = env.hasLoader
            /\ UNCHANGED <<listeners, rafPending, timer, rnd, scene, wrapped>>
       ELSE IF ContainerMissing(env)
       THEN /\ status' = "skippedNoContainer"
            /\ UNCHANGED <<listeners, rafPending, timer, loaderHidden, rnd, scene,
                           wrapped>>
       ELSE IF ThreeMissing(env)
       THEN /\ status' = "threw"
            /\ UNCHANGED <<listeners, rafPending, timer, loaderHidden, rnd, scene,
                           wrapped>>
       ELSE \E built \in {BuildScene(env, inner, rnd)} :
            \E first \in {animate(built.scene, built.rnd, pointer, dayT, 0)} :
                /\ status' = "running"
                /\ listeners' = {"mousemove", "resize", "scroll"}
                /\ rafPending' = RequestFrame(0)
                /\ scene' = first.scene
                /\ rnd' = first.rnd
                /\ wrapped' = first.wrapped
                /\ timer' = "pending"
                /\ UNCHANGED loaderHidden

\* the host runs a requested frame callback, up to cap frames; a timeout
\* that is due runs before the next frame
FrameUpTo(cap) ==
    /\ status = "running"
    /\ rafPending > 0
    /\ scene.frames < cap
    /\ ~(timer = "pending" /\ elapsed >= LoaderDelay)
    /\ \E delta \in Deltas :
         \E out \in {animate(scene, rnd, pointer, dayT, delta)} :
             /\ scene' = out.scene
             /\ rnd' = out.rnd
             /\ wrapped' = [ orbs |-> wrapped.orbs \cup out.wrapped.orbs,
                             dust |-> wrapped.dust \cup out.wrapped.dust ]
             /\ elapsed' = elapsed + delta
    /\ rafPending' = RequestFrame(rafPending - 1)
    /\ UNCHANGED <<env, inner, status, listeners, timer, loaderHidden, pointer, dayT>>

Frame == FrameUpTo(MaxFrames)

\* line 273: the timeout runs
LoaderTimeout ==
    /\ timer = "pending"
    /\ elapsed >= LoaderDelay
    /\ timer' = "fired"
    /\ loaderHidden' = env.hasLoader
    /\ UNCHANGED <<env, inner, status, listeners, rafPending, elapsed, rnd,
                   pointer, dayT, scene, wrapped>>

\* the page still takes events
Awake == status # "loading" /\ scene.frames <= EnvFrames

MouseMove ==
    /\ Awake
    /\ \E p \in ClientPoints :
         pointer' = IF "mousemove" \in listeners
                    THEN PointerAt(p[1], p[2], inner) ELSE pointer
    /\ UNCHANGED <<env, inner, status, listeners, rafPending, timer, loaderHidden,
                   elapsed, rnd, dayT, scene, wrapped>>

Scroll ==
    /\ Awake
    /\ \E y \in ScrollYs, h \in ScrollHeights :
         dayT' = IF "scroll" \in listeners THEN DayOfScroll(y, h, inner) ELSE dayT
    /\ UNCHANGED <<env, inner, status, listeners, rafPending, timer, loaderHidden,
                   elapsed, rnd, pointer, scene, wrapped>>

Resize ==
    /\ Awake
    /\ \E vp \in Viewports :
         /\ inner' = vp
         /\ scene' = IF "resize" \in listeners
                      THEN [ scene EXCEPT !.camera = ResizeCamera(scene.camera, vp),
                                          !.size = SetSize(vp[1], vp[2]) ]
                      ELSE scene
    /\ UNCHANGED <<env, status, listeners, rafPending, timer, loaderHidden,
                   elapsed, rnd, pointer, dayT, wrapped>>

Next == Startup \/ Frame \/ LoaderTimeout \/ MouseMove \/ Scroll \/ Resize

Spec == Init /\ [][Next]_vars

\* The first frames only, which end before the loader timeout is due, with
\* the host delivering every frame callback that was requested.
LiveFrame == FrameUpTo(LiveFrames)

LiveNext == Startup \/ LiveFrame \/ MouseMove \/ Scroll \/ Resize

LiveSpec == Init /\ [][LiveNext]_vars /\ WF_vars(LiveFrame)

----------------------------------------------------------------------------
\* The claims

Running == status = "running"

\* C1: on a mobile or touch device, or without the element 'three-container',
\* the script ends with nothing built: no renderer, scene, orb or dust, no
\* listener registered, no frame callback requested or run.
C1_GuardedStartup ==
    (status # "loading" /\ (env.uaMobile \/ env.coarse \/ ~env.hasContainer))
        => /\ scene = NoScene
           /\ listeners = {}
           /\ rafPending = 0
           /\ timer = "none"

C1_Witness ==
    /\ status = "skippedNoContainer"
    /\ env.hasTHREE
    /\ inner # InitialViewport

\* C2: dayT lies in [0, 1] in every state, whatever was scrolled.
C2_DayInUnitInterval == 0 <= dayT /\ dayT <= 1000

C2_Witness == Running /\ dayT = 1000 /\ scene.frames >= 2

\* C3: after every run of animate no orb is under -8 and no dust particle
\* under 0.5; an orb that rose in the run (orbs otherwise only sink) was put
\* in [18, 54), a particle that rose by more than its drift of 0.0002 was put
\* in [62, 70).
C3_Recycling ==
    [][ /\ status' = "running" =>
            /\ \A i \in 1..Len(scene'.orbs) : scene'.orbs[i].y >= -80000
            /\ \A k \in 1..Len(scene'.dust) : scene'.dust[k].y >= 5000
        /\ (Running /\ scene'.frames # scene.frames) =>
            /\ \A i \in 1..Len(scene.orbs) :
                 \/ scene'.orbs[i].y < scene.orbs[i].y
                 \/ (180000 <= scene'.orbs[i].y /\ scene'.orbs[i].y < 540000)
            /\ \A k \in 1..Len(scene.dust) :
                 \/ scene'.dust[k].y <= scene.dust[k].y + 2
                 \/ (620000 <= scene'.dust[k].y /\ scene'.dust[k].y < 700000)
      ]_vars

C3_Witness == wrapped.orbs # {} /\ wrapped.dust # {}

\* C4: with the scene running, the camera's aspect is innerWidth / innerHeight
\* and the renderer's size is (innerWidth, innerHeight): aspect = width / height.
C4_AspectMatchesSize ==
    Running =>
        /\ scene.camera.aspect = inner
        /\ scene.size = inner
        /\ scene.camera.aspect[1] * scene.size[2] = scene.camera.aspect[2] * scene.size[1]

C4_Witness == Running /\ inner # InitialViewport /\ scene.frames >= 2

\* C5: without THREE, on a desktop page with the container, the script ends
\* as skipped, raising nothing.
C5_SkipsWithoutThree ==
    (status # "loading" /\ ~env.uaMobile /\ ~env.coarse /\ env.hasContainer /\ ~env.hasTHREE)
        => status \in {"skippedMobile", "skippedNoContainer", "skipped"}

\* C6: the orb group holds the same 12 orbs for ever; no step changes an
\* orb's identity, radius, material class, drift or wobble.
OrbKept(o) == <<o.id, o.radius, o.metal, o.drift, o.wobble, o.baseZ>>

C6_OrbsKept ==
    [][ /\ status' = "running" =>
            /\ Len(scene'.orbs) = 12
            /\ \A i \in 1..12 : scene'.orbs[i].id = i
        /\ Running => \A i \in 1..12 : OrbKept(scene'.orbs[i]) = OrbKept(scene.orbs[i])
      ]_vars

C6_Witness == Running /\ wrapped.orbs # {} /\ dayT # 50 /\ inner # InitialViewport

\* C7 as stated: once the scene runs, only animate changes the scene.
C7_OnlyAnimateWrites ==
    [][ (Running /\ scene'.frames = scene.frames) => scene' = scene ]_vars

\* the scene without what the resize listener writes
BesidesProjection(sc) ==
    [ sc EXCEPT !.camera = [sc.camera EXCEPT !.aspect = <<1, 1>>], !.size = <<0, 0>> ]

\* C7 amended: outside animate, the scene changes only in the camera's aspect
\* and the renderer's size, and only when the window is resized; a step that
\* writes the pointer or dayT leaves the scene as it is.
C7_OnlyResizeBesidesAnimate ==
    [][ (Running /\ scene'.frames = scene.frames) =>
            /\ BesidesProjection(scene') = BesidesProjection(scene)
            /\ (pointer' # pointer \/ dayT' # dayT) => scene' = scene
            /\ scene' # scene => (scene'.camera.aspect = inner' /\ scene'.size = inner')
      ]_vars

C7_Witness ==
    /\ Running
    /\ inner # InitialViewport
    /\ pointer # [x |-> 0, y |-> 0]
    /\ dayT # 50
    /\ scene.camera.aspect = inner

\* C8: with the scene running exactly one frame callback is requested at any
\* time; a run of animate is one more frame and one more render call; and
\* with frame callbacks delivered fairly, whatever events come between them,
\* animate keeps running, up to the last frame followed.
C8_FrameLoop ==
    /\ [][ status' = "running" =>
              /\ rafPending' = 1
              /\ scene'.renders = scene'.frames
              /\ scene'.frames # scene.frames =>
                    /\ scene'.frames = scene.frames + 1
                    /\ scene'.renders = scene.renders + 1
        ]_vars
    /\ Running ~> (Running /\ scene.frames = LiveFrames)

C8_Witness ==
    /\ Running
    /\ scene.frames = LiveFrames
    /\ scene.renders = LiveFrames
    /\ rafPending = 1
    /\ pointer # [x |-> 0, y |-> 0]

\* C9: baseY, x and z of the vertices never change; after every run of
\* animate a vertex is at its base height plus the displacement of that run,
\* within 4.88 of the base, and at the base when there is no noise.
C9_NoAccumulation ==
    [][ /\ status' = "running" =>
            \A k \in 1..Len(scene'.verts) :
                /\ scene'.verts[k].y
                     = scene'.baseY[k] + Height(scene'.noise, scene'.verts[k], scene'.t)
                /\ Abs(scene'.verts[k].y - scene'.baseY[k]) <= 48800
                /\ ~scene'.noise.on => scene'.verts[k].y = scene'.baseY[k]
        /\ Running =>
            /\ scene'.baseY = scene.baseY
            /\ \A k \in 1..Len(scene.verts) :
                  /\ scene'.verts[k].x = scene.verts[k].x
                  /\ scene'.verts[k].z = scene.verts[k].z
      ]_vars

C9_Witness ==
    /\ Running
    /\ scene.noise.on
    /\ scene.frames >= 3
    /\ \E k \in 1..Len(scene.verts) : scene.verts[k].y # scene.baseY[k]

====
